---------------------------- MODULE Spec2Model ----------------------------
(***************************************************************************)
(* The ledger core of gonano: Ledger (NewLedger, AddBlock, AddBlocks and   *)
(* the four block handlers) over the five tables of the badger store.      *)
(*                                                                         *)
(* A transaction is a record of the five tables; a store operation maps a  *)
(* transaction to [err, txn].  BadgerStore.Update commits the closure's    *)
(* transaction iff the closure returns nil.  AddBlock is one step; the     *)
(* loop of AddBlocks is one step per block on the batch's transaction,     *)
(* which only the commit at the end of the loop makes visible in tables.   *)
(* Balances are unsigned integers of BalanceBits bits that wrap around.    *)
(* The Representation table holds a weight as the bytes MarshalBinary      *)
(* writes, and GetRepresentation reads them through UnmarshalBinary.       *)
(***************************************************************************)
EXTENDS Integers, Sequences, FiniteSets, TLC

(***************************************************************************)
(* Bounds of the model.                                                    *)
(***************************************************************************)
\* Number of distinct block hashes that may enter the store (genesis included).
MaxHashes == 3
\* Width in bits of the scaled-down Balance (uint128 in the source).
BalanceBits == 4
\* Width in bytes of the scaled-down block hash (32 in the source).
HashSize == 2

\* LedgerOptions.GenesisBalance, the supply installed with the genesis block.
GenesisBalance == 2

BalanceMod == 2 ^ BalanceBits

\* Accounts (public keys).  G owns the genesis block.
Address == {"G", "A"}
NoAddr  == "none"
\* A hash that no stored block has (a reference to an unknown block).
NoHash  == 0

OK == "OK"
ErrBadWork         == "ErrBadWork"
ErrBadGenesis      == "ErrBadGenesis"
ErrMissingPrevious == "ErrMissingPrevious"
ErrMissingSource   == "ErrMissingSource"
ErrBlockExists     == "ErrBlockExists"
ErrKeyNotFound     == "ErrKeyNotFound"
ErrBadSignature    == "bad block signature"
ErrAccountExists   == "account already exists"
ErrUnexpectedHead  == "unexpected head block for account"
ErrNegativeSpend   == "negative/zero spend"
ErrBadRepType      == "bad representative block type"
ErrAddressExists   == "address already exists"
ErrFrontierExists  == "frontier already exists"
ErrPendingExists   == "pending transaction already exists"
ErrGenesisSignature == "bad signature for genesis block"
ErrBadBalanceSize  == "balances should be 16 bytes in size"

VARIABLES
    tables,   \* the committed store: [block, addr, frontier, pending, rep]
    hashes,   \* the hash function so far: hashes[h] is the content hashing to h
    batch,    \* a running AddBlocks: <<txn, seq>>, or NoTxn; txn is its open write
              \* transaction, seq the store as one AddBlock call per block of
              \* the batch so far would have left it
    last      \* the last ledger call: [op, typ, src, stored, rooted, err, wrote, added, failed];
              \* typ is the type of the block the call applied ("none" when it
              \* was rejected, "commit" at the end of AddBlocks),
              \* src is the source named by a block rejected with MissingSource,
              \* stored and rooted tell whether the block's hash and its root
              \* were in the Block table when the call began, added and failed
              \* whether the call (for AddBlocks: the batch so far) has applied
              \* a block and has had a block rejected

vars == <<tables, hashes, batch, last>>

NoTxn == <<>>

(***************************************************************************)
(* Blocks.  A block is its hashed content plus a signature (the key that   *)
(* signed it) and a proof of work (valid or not).                          *)
(***************************************************************************)
Blk(t, prev, src, addr, rep, dest, bal, signer, work) ==
    [type |-> t, previous |-> prev, source |-> src, address |-> addr,
     representative |-> rep, destination |-> dest, balance |-> bal,
     signer |-> signer, work |-> work]

OpenBlock(src, addr, rep, signer, work) ==
    Blk("open", NoHash, src, addr, rep, NoAddr, 0, signer, work)
SendBlock(prev, dest, bal, signer, work) ==
    Blk("send", prev, NoHash, NoAddr, NoAddr, dest, bal, signer, work)
ReceiveBlock(prev, src, signer, work) ==
    Blk("receive", prev, src, NoAddr, NoAddr, NoAddr, 0, signer, work)
ChangeBlock(prev, rep, signer, work) ==
    Blk("change", prev, NoHash, NoAddr, rep, NoAddr, 0, signer, work)

\* What the hash covers: everything but the signature and the work.
Content(blk) ==
    [type |-> blk.type, previous |-> blk.previous, source |-> blk.source,
     address |-> blk.address, representative |-> blk.representative,
     destination |-> blk.destination, balance |-> blk.balance]

\* blk.Hash(): injective on contents.  A content seen before keeps its hash,
\* a new content gets a hash no other content has.
Hash(reg, blk) ==
    IF \E i \in 1..Len(reg) : reg[i] = Content(blk)
    THEN CHOOSE i \in 1..Len(reg) : reg[i] = Content(blk)
    ELSE Len(reg) + 1

\* blk.Root(): the hash the block extends.
Root(blk) == IF blk.type = "open" THEN blk.source ELSE blk.previous

\* blk.Valid(): the proof-of-work check.
Valid(blk) == blk.work

\* address.Verify(hash, blk.Signature())
Verify(address, blk) == blk.signer = address

(***************************************************************************)
(* wallet.Balance                                                          *)
(***************************************************************************)
BalanceAdd(b, n) == (b + n) % BalanceMod
BalanceSub(b, n) == (b - n + BalanceMod) % BalanceMod
BalanceCompare(b, n) ==
    IF b > n THEN "BalanceCompBigger"
    ELSE IF b = n THEN "BalanceCompEqual" ELSE "BalanceCompSmaller"

ZeroBalance == 0

\* The size of a balance in bytes.  A byte of the model is one bit wide.
BalanceSize == BalanceBits

\* uint128.GetBytes: the big-endian bytes of b.
GetBytes(b) == [i \in 1..BalanceSize |-> (b \div (2 ^ (BalanceSize - i))) % 2]

\* uint128.FromBytes: the number whose big-endian bytes are data.
RECURSIVE FromBytes(_)
FromBytes(data) ==
    IF data = <<>> THEN 0
    ELSE 2 * FromBytes(SubSeq(data, 1, Len(data) - 1)) + data[Len(data)]

\* util.ReverseBytes
ReverseBytes(bytes) == [i \in 1..Len(bytes) |-> bytes[Len(bytes) + 1 - i]]

\* Balance.Bytes
Bytes(b, order) ==
    IF order = "BigEndian" THEN GetBytes(b) ELSE ReverseBytes(GetBytes(b))

\* Balance.MarshalBinary
MarshalBinary(b) == Bytes(b, "LittleEndian")

\* Balance.UnmarshalBinary: [err, val]
UnmarshalBinary(data) ==
    IF Len(data) # BalanceSize
    THEN [err |-> ErrBadBalanceSize, val |-> ZeroBalance]
    ELSE [err |-> OK, val |-> FromBytes(data)]

(***************************************************************************)
(* The badger store: typed operations on a transaction.                    *)
(***************************************************************************)
Ret(e, txn) == [err |-> e, txn |-> txn]
Failed(r) == r.err # OK

Put(f, k, v) == [x \in DOMAIN f \cup {k} |-> IF x = k THEN v ELSE f[x]]
Del(f, k) == [x \in DOMAIN f \ {k} |-> f[x]]
EmptyMap == [x \in {} |-> 0]

EmptyTables ==
    [block |-> EmptyMap, addr |-> EmptyMap, frontier |-> EmptyMap,
     pending |-> EmptyMap, rep |-> EmptyMap]

Empty(txn) == DOMAIN txn.block = {}

HasBlock(txn, hash) == hash \in DOMAIN txn.block

TxnAddBlock(txn, hash, blk) ==
    IF hash \in DOMAIN txn.block
    THEN Ret(ErrBlockExists, txn)
    ELSE Ret(OK, [txn EXCEPT !.block = Put(@, hash, blk)])

AddAddress(txn, address, info) ==
    IF address \in DOMAIN txn.addr
    THEN Ret(ErrAddressExists, txn)
    ELSE Ret(OK, [txn EXCEPT !.addr = Put(@, address, info)])

UpdateAddress(txn, address, info) ==
    Ret(OK, [txn EXCEPT !.addr = Put(@, address, info)])

AddFrontier(txn, hash, address) ==
    IF hash \in DOMAIN txn.frontier
    THEN Ret(ErrFrontierExists, txn)
    ELSE Ret(OK, [txn EXCEPT !.frontier = Put(@, hash, address)])

DeleteFrontier(txn, hash) ==
    Ret(OK, [txn EXCEPT !.frontier = Del(@, hash)])

\* A byte, and the table prefix of the Frontier keys.
ByteMod == 2 ^ 8
idPrefixFrontier == 2

\* hash[:], the bytes of a hash, and the hash that bytes spell.
HashBytes(hash) ==
    [i \in 1..HashSize |-> (hash \div (ByteMod ^ (HashSize - i))) % ByteMod]
RECURSIVE HashFromBytes(_)
HashFromBytes(bytes) ==
    IF bytes = <<>> THEN 0
    ELSE ByteMod * HashFromBytes(SubSeq(bytes, 1, Len(bytes) - 1)) + bytes[Len(bytes)]

\* The key of a Frontier record: the prefix byte, then the hash.
FrontierKey(hash) == <<idPrefixFrontier>> \o HashBytes(hash)

\* copy(dst[:], src) into a zeroed array of n bytes: the first n bytes of src.
Copy(n, src) == [i \in 1..n |-> IF i <= Len(src) THEN src[i] ELSE 0]

\* GetFrontier: [err, frontier]
GetFrontier(txn, hash) ==
    IF hash \in DOMAIN txn.frontier
    THEN [err |-> OK, frontier |-> [Address |-> txn.frontier[hash], Hash |-> hash]]
    ELSE [err |-> ErrKeyNotFound, frontier |-> [Address |-> NoAddr, Hash |-> NoHash]]

\* GetFrontiers: one Frontier per record, in the order of the keys.
RECURSIVE IterateFrontiers(_, _)
IterateFrontiers(txn, keys) ==
    IF keys = {} THEN <<>>
    ELSE LET h == CHOOSE x \in keys : \A y \in keys : x <= y IN
         <<[Address |-> txn.frontier[h],
            Hash |-> HashFromBytes(Copy(HashSize, FrontierKey(h)))]>>
             \o IterateFrontiers(txn, keys \ {h})
GetFrontiers(txn) == IterateFrontiers(txn, DOMAIN txn.frontier)

AddPending(txn, destination, hash, pending) ==
    IF <<destination, hash>> \in DOMAIN txn.pending
    THEN Ret(ErrPendingExists, txn)
    ELSE Ret(OK, [txn EXCEPT !.pending = Put(@, <<destination, hash>>, pending)])

\* A DeletePending that deletes nothing.
Mut_DeletePending_Keep(txn, destination, hash) == Ret(OK, txn)

DeletePending(txn, destination, hash) ==
    Ret(OK, [txn EXCEPT !.pending = Del(@, <<destination, hash>>)])

\* GetRepresentation: [err, val]; the weight of a missing key is zero.
GetRepresentation(txn, address) ==
    IF address \in DOMAIN txn.rep
    THEN UnmarshalBinary(txn.rep[address])
    ELSE [err |-> OK, val |-> ZeroBalance]

setRepresentation(txn, address, amount) ==
    Ret(OK, [txn EXCEPT !.rep = Put(@, address, MarshalBinary(amount))])

AddRepresentation(txn, address, amount) ==
    LET oldAmount == GetRepresentation(txn, address) IN
    IF Failed(oldAmount) THEN Ret(oldAmount.err, txn)
    ELSE setRepresentation(txn, address, BalanceAdd(oldAmount.val, amount))

SubRepresentation(txn, address, amount) ==
    LET oldAmount == GetRepresentation(txn, address) IN
    IF Failed(oldAmount) THEN Ret(oldAmount.err, txn)
    ELSE setRepresentation(txn, address, BalanceSub(oldAmount.val, amount))

\* A store that commits the closure's writes whatever it returns.
Mut_Update_CommitAlways(old, r) == r.txn

\* db.Update: the closure's writes are committed iff it returns nil.
Update(old, r) == IF r.err = OK THEN r.txn ELSE old


(***************************************************************************)
(* The ledger.                                                             *)
(***************************************************************************)
\* A signature check that lets every signature through.
Mut_BadSignature_Never(address, blk) == FALSE

\* The handlers' signature check: the block is not signed by address.
BadSignature(address, blk) == ~Verify(address, blk)

\* A head check that lets every block through.
Mut_UnexpectedHead_Never(info, blk) == FALSE

\* The handlers' head check: the block does not extend the account's head.
UnexpectedHead(info, blk) == info.HeadBlock # Root(blk)

\* Ledger.getRepresentative: [err, rep]
getRepresentative(txn, address) ==
    IF address \notin DOMAIN txn.addr
    THEN [err |-> ErrKeyNotFound, rep |-> NoAddr]
    ELSE LET info == txn.addr[address] IN
         IF info.RepBlock \notin DOMAIN txn.block
         THEN [err |-> ErrKeyNotFound, rep |-> NoAddr]
         ELSE LET blk == txn.block[info.RepBlock] IN
              IF blk.type \in {"open", "change"}
              THEN [err |-> OK, rep |-> blk.representative]
              ELSE [err |-> ErrBadRepType, rep |-> NoAddr]

\* An AddressInfo that is opened without the amount it claims.
Mut_OpenInfo_NoCredit(hash, pending) ==
    [HeadBlock |-> hash, RepBlock |-> hash, OpenBlock |-> hash,
     Balance |-> ZeroBalance]

\* The AddressInfo an Open block creates.
OpenInfo(hash, pending) ==
    [HeadBlock |-> hash, RepBlock |-> hash, OpenBlock |-> hash,
     Balance |-> pending.Amount]

\* Ledger.addOpenBlock
addOpenBlock(txn, blk, hash) ==
    IF BadSignature(blk.address, blk) THEN Ret(ErrBadSignature, txn)
    ELSE IF blk.address \in DOMAIN txn.addr THEN Ret(ErrAccountExists, txn)
    ELSE IF <<blk.address, blk.source>> \notin DOMAIN txn.pending
         THEN Ret(ErrMissingSource, txn)
    ELSE LET pending == txn.pending[<<blk.address, blk.source>>]
             r1 == AddAddress(txn, blk.address, OpenInfo(hash, pending))
             r2 == IF Failed(r1) THEN r1
                   ELSE DeletePending(r1.txn, blk.address, blk.source)
             r3 == IF Failed(r2) THEN r2
                   ELSE AddRepresentation(r2.txn, blk.representative, pending.Amount)
             r4 == IF Failed(r3) THEN r3
                   ELSE AddFrontier(r3.txn, hash, blk.address)
         IN  IF Failed(r4) THEN r4 ELSE TxnAddBlock(r4.txn, hash, blk)

\* A spend check that lets a zero spend through.
Mut_NegativeOrZeroSpend_ZeroAllowed(info, blk) ==
    BalanceCompare(blk.balance, info.Balance) = "BalanceCompBigger"

\* The Send block leaves the sender no less than it has.
NegativeOrZeroSpend(info, blk) ==
    BalanceCompare(blk.balance, info.Balance)
        \in {"BalanceCompBigger", "BalanceCompEqual"}

\* A Pending record that holds what the sender keeps, not what it sends.
Mut_SendPending_Remaining(address, info, blk) ==
    [Address |-> address, Amount |-> blk.balance]

\* The Pending record a Send block creates.
SendPending(address, info, blk) ==
    [Address |-> address, Amount |-> BalanceSub(info.Balance, blk.balance)]

\* A Send that moves the head and leaves the balance as it was.
Mut_SendInfo_KeepBalance(info, blk, hash) == [info EXCEPT !.HeadBlock = hash]

\* The AddressInfo of the sender after a Send block.
SendInfo(info, blk, hash) ==
    [info EXCEPT !.HeadBlock = hash, !.Balance = blk.balance]

\* The hash whose frontier a Send, Receive or Change block deletes.
StaleFrontier(blk, hash) == hash

\* The account's frontier moves to the new block.
updateFrontier(r, blk, hash, address) ==
    IF Failed(r) THEN r
    ELSE LET d == DeleteFrontier(r.txn, StaleFrontier(blk, hash)) IN
         IF Failed(d) THEN d ELSE AddFrontier(d.txn, hash, address)

\* Ledger.addSendBlock
addSendBlock(txn, blk, hash) ==
    IF Root(blk) \notin DOMAIN txn.frontier THEN Ret(ErrKeyNotFound, txn)
    ELSE LET address == txn.frontier[Root(blk)] IN
    IF BadSignature(address, blk) THEN Ret(ErrBadSignature, txn)
    ELSE IF address \notin DOMAIN txn.addr THEN Ret(ErrKeyNotFound, txn)
    ELSE LET info == txn.addr[address] IN
    IF UnexpectedHead(info, blk) THEN Ret(ErrUnexpectedHead, txn)
    ELSE IF NegativeOrZeroSpend(info, blk) THEN Ret(ErrNegativeSpend, txn)
    ELSE LET r1 == AddPending(txn, blk.destination, hash,
                              SendPending(address, info, blk))
             r2 == IF Failed(r1) THEN r1
                   ELSE UpdateAddress(r1.txn, address, SendInfo(info, blk, hash))
             g  == getRepresentative(r2.txn, address)
             r3 == IF Failed(r2) THEN r2
                   ELSE IF Failed(g) THEN Ret(g.err, r2.txn)
                   ELSE SubRepresentation(r2.txn, g.rep, blk.balance)
             r4 == updateFrontier(r3, blk, hash, address)
         IN  IF Failed(r4) THEN r4 ELSE TxnAddBlock(r4.txn, hash, blk)

\* Ledger.addReceiveBlock
addReceiveBlock(txn, blk, hash) ==
    IF Root(blk) \notin DOMAIN txn.frontier THEN Ret(ErrKeyNotFound, txn)
    ELSE LET address == txn.frontier[Root(blk)] IN
    IF BadSignature(address, blk) THEN Ret(ErrBadSignature, txn)
    ELSE IF address \notin DOMAIN txn.addr THEN Ret(ErrKeyNotFound, txn)
    ELSE LET info == txn.addr[address] IN
    IF UnexpectedHead(info, blk) THEN Ret(ErrUnexpectedHead, txn)
    ELSE IF <<address, blk.source>> \notin DOMAIN txn.pending
         THEN Ret(ErrMissingSource, txn)
    ELSE LET pending == txn.pending[<<address, blk.source>>]
             r1 == UpdateAddress(txn, address,
                       [info EXCEPT !.HeadBlock = hash,
                                    !.Balance = BalanceAdd(info.Balance, pending.Amount)])
             r2 == IF Failed(r1) THEN r1
                   ELSE DeletePending(r1.txn, address, blk.source)
             g  == getRepresentative(r2.txn, address)
             r3 == IF Failed(r2) THEN r2
                   ELSE IF Failed(g) THEN Ret(g.err, r2.txn)
                   ELSE AddRepresentation(r2.txn, g.rep, pending.Amount)
             r4 == updateFrontier(r3, blk, hash, address)
         IN  IF Failed(r4) THEN r4 ELSE TxnAddBlock(r4.txn, hash, blk)

\* Ledger.addChangeBlock
addChangeBlock(txn, blk, hash) ==
    IF Root(blk) \notin DOMAIN txn.frontier THEN Ret(ErrKeyNotFound, txn)
    ELSE LET address == txn.frontier[Root(blk)] IN
    IF BadSignature(address, blk) THEN Ret(ErrBadSignature, txn)
    ELSE IF address \notin DOMAIN txn.addr THEN Ret(ErrKeyNotFound, txn)
    ELSE LET info == txn.addr[address] IN
    IF UnexpectedHead(info, blk) THEN Ret(ErrUnexpectedHead, txn)
    ELSE LET info2 == [info EXCEPT !.HeadBlock = hash, !.RepBlock = hash]
             r1 == UpdateAddress(txn, address, info2)
             g  == getRepresentative(r1.txn, address)
             r2 == IF Failed(r1) THEN r1
                   ELSE IF Failed(g) THEN Ret(g.err, r1.txn)
                   ELSE SubRepresentation(r1.txn, g.rep, info2.Balance)
             r3 == IF Failed(r2) THEN r2
                   ELSE AddRepresentation(r2.txn, blk.representative, info2.Balance)
             r4 == updateFrontier(r3, blk, hash, address)
         IN  IF Failed(r4) THEN r4 ELSE TxnAddBlock(r4.txn, hash, blk)

\* An addBlock that does not look the hash up.
Mut_addBlock_NoExistsCheck(txn, blk, hash) ==
    IF ~Valid(blk) THEN Ret(ErrBadWork, txn)
    ELSE IF ~HasBlock(txn, Root(blk)) THEN Ret(ErrMissingPrevious, txn)
    ELSE CASE blk.type = "open"    -> addOpenBlock(txn, blk, hash)
           [] blk.type = "send"    -> addSendBlock(txn, blk, hash)
           [] blk.type = "receive" -> addReceiveBlock(txn, blk, hash)
           [] blk.type = "change"  -> addChangeBlock(txn, blk, hash)

\* An addBlock that looks the hash up before it checks the work.
Mut_addBlock_ExistsBeforeWork(txn, blk, hash) ==
    IF HasBlock(txn, hash) THEN Ret(ErrBlockExists, txn)
    ELSE IF ~Valid(blk) THEN Ret(ErrBadWork, txn)
    ELSE IF ~HasBlock(txn, Root(blk)) THEN Ret(ErrMissingPrevious, txn)
    ELSE CASE blk.type = "open"    -> addOpenBlock(txn, blk, hash)
           [] blk.type = "send"    -> addSendBlock(txn, blk, hash)
           [] blk.type = "receive" -> addReceiveBlock(txn, blk, hash)
           [] blk.type = "change"  -> addChangeBlock(txn, blk, hash)

\* Ledger.addBlock
addBlock(txn, blk, hash) ==
    IF ~Valid(blk) THEN Ret(ErrBadWork, txn)
    ELSE IF HasBlock(txn, hash) THEN Ret(ErrBlockExists, txn)
    ELSE IF ~HasBlock(txn, Root(blk)) THEN Ret(ErrMissingPrevious, txn)
    ELSE CASE blk.type = "open"    -> addOpenBlock(txn, blk, hash)
           [] blk.type = "send"    -> addSendBlock(txn, blk, hash)
           [] blk.type = "receive" -> addReceiveBlock(txn, blk, hash)
           [] blk.type = "change"  -> addChangeBlock(txn, blk, hash)

\* Ledger.setGenesis
setGenesis(txn, blk, hash, balance) ==
    IF ~Verify(blk.address, blk) THEN Ret(ErrGenesisSignature, txn)
    ELSE IF ~Empty(txn)
         THEN IF HasBlock(txn, hash) THEN Ret(OK, txn) ELSE Ret(ErrBadGenesis, txn)
    ELSE LET r1 == TxnAddBlock(txn, hash, blk)
             r2 == IF Failed(r1) THEN r1
                   ELSE AddAddress(r1.txn, blk.address,
                            [HeadBlock |-> hash, RepBlock |-> hash,
                             OpenBlock |-> hash, Balance |-> balance])
         IN  IF Failed(r2) THEN r2 ELSE AddFrontier(r2.txn, hash, blk.address)


(***************************************************************************)
(* Inputs.  A submitted block refers to hashes the hash function has       *)
(* already produced, or to an unknown one; it is signed by any key and     *)
(* carries valid or invalid work.                                          *)
(***************************************************************************)
HashRefs(reg) == {NoHash} \cup (1..Len(reg))
BalanceInputs == 0..GenesisBalance
\* <<signer, work>>.  The signature of a block with invalid work is never
\* read (the work is checked first), so one signer stands for all of them.
Seals == {<<k, TRUE>> : k \in Address} \cup {<<"G", FALSE>>}

OpenInputs(reg) ==
    {OpenBlock(s, a, r, k[1], k[2]) :
        s \in HashRefs(reg), a \in Address, r \in Address, k \in Seals}
SendInputs(reg) ==
    {SendBlock(p, d, b, k[1], k[2]) :
        p \in HashRefs(reg), d \in Address, b \in BalanceInputs, k \in Seals}
ReceiveInputs(reg) ==
    {ReceiveBlock(p, s, k[1], k[2]) :
        p \in HashRefs(reg), s \in HashRefs(reg), k \in Seals}
ChangeInputs(reg) ==
    {ChangeBlock(p, r, k[1], k[2]) :
        p \in HashRefs(reg), r \in Address, k \in Seals}

BlockInputs(reg) ==
    OpenInputs(reg) \cup SendInputs(reg) \cup ReceiveInputs(reg) \cup ChangeInputs(reg)

\* LedgerOptions.GenesisBlock
GenesisBlock == OpenBlock(NoHash, "G", "G", "G", TRUE)

\* The genesis blocks a node may be restarted with: the Open blocks the hash
\* function has seen, and the self-representing ones it has not.
GenesisInputs(reg) ==
    {b \in OpenInputs(reg) :
        Hash(reg, b) <= Len(reg) \/ (b.source = NoHash /\ b.representative = b.address)}

\* The hash function after a call on blk: a content that entered the store is remembered.
Remember(reg, blk, before, after) ==
    IF after # before /\ Hash(reg, blk) = Len(reg) + 1
    THEN Append(reg, Content(blk))
    ELSE reg

Call(op, blk, hash, r, before, added, failed) ==
    [op |-> op, typ |-> IF r.err = OK THEN blk.type ELSE "none",
     src |-> IF r.err = ErrMissingSource THEN blk.source ELSE NoHash,
     stored |-> HasBlock(before, hash), rooted |-> HasBlock(before, Root(blk)),
     err |-> r.err, wrote |-> r.txn # before,
     added |-> added \/ r.err = OK, failed |-> failed \/ r.err # OK]

(***************************************************************************)
(* The state machine.                                                      *)
(***************************************************************************)
\* NewLedger on an empty store with the network's genesis block.
Init ==
    /\ tables = setGenesis(EmptyTables, GenesisBlock, 1, GenesisBalance).txn
    /\ hashes = <<Content(GenesisBlock)>>
    /\ batch = NoTxn
    /\ last = Call("NewLedger", GenesisBlock, 1,
                   setGenesis(EmptyTables, GenesisBlock, 1, GenesisBalance),
                   EmptyTables, FALSE, FALSE)

\* NewLedger on the store as it is (the node is restarted with options blk).
NewLedger(blk) ==
    /\ batch = NoTxn
    /\ LET r == setGenesis(tables, blk, Hash(hashes, blk), GenesisBalance) IN
       /\ tables' = Update(tables, r)
       /\ hashes' = Remember(hashes, blk, tables, tables')
       /\ last' = Call("NewLedger", blk, Hash(hashes, blk), r, tables, FALSE, FALSE)
    /\ UNCHANGED batch

\* Ledger.AddBlock
AddBlock(blk) ==
    /\ batch = NoTxn
    /\ LET r == addBlock(tables, blk, Hash(hashes, blk)) IN
       /\ tables' = Update(tables, r)
       /\ hashes' = Remember(hashes, blk, tables, tables')
       /\ Len(hashes') <= MaxHashes
       /\ last' = Call("AddBlock", blk, Hash(hashes, blk), r, tables, FALSE, FALSE)
    /\ UNCHANGED batch

\* Ledger.AddBlocks, one iteration of its loop: the block is applied to the
\* batch's one transaction and the loop goes on whatever the error.  The
\* same block is applied to seq the way AddBlock applies it.
AddBlocksStep(blk) ==
    LET txn == IF batch = NoTxn THEN tables ELSE batch[1]
        seq == IF batch = NoTxn THEN tables ELSE batch[2]
        r   == addBlock(txn, blk, Hash(hashes, blk))
        one == Update(seq, addBlock(seq, blk, Hash(hashes, blk)))
    IN  /\ batch' = <<r.txn, one>>
        /\ hashes' = Remember(hashes, blk, <<txn, seq>>, <<r.txn, one>>)
        /\ Len(hashes') <= MaxHashes
        /\ last' = Call("AddBlocks", blk, Hash(hashes, blk), r, txn,
                         batch # NoTxn /\ last.added, batch # NoTxn /\ last.failed)
        /\ UNCHANGED tables

\* An AddBlocks whose closure returns an error when a block of the batch was
\* rejected, so that db.Update rolls the batch back.
Mut_AddBlocksCommit_AbortOnFailure ==
    LET err == IF last.failed THEN "batch aborted" ELSE OK IN
    /\ batch # NoTxn
    /\ tables' = Update(tables, Ret(err, batch[1]))
    /\ batch' = NoTxn
    /\ last' = [op |-> "AddBlocks", typ |-> "commit", src |-> NoHash,
                stored |-> FALSE, rooted |-> FALSE, err |-> err,
                wrote |-> batch[1] # tables,
                added |-> last.added, failed |-> last.failed]
    /\ UNCHANGED hashes

\* Ledger.AddBlocks, the end of the loop: the closure returns nil and
\* db.Update commits the transaction.
AddBlocksCommit ==
    /\ batch # NoTxn
    /\ tables' = Update(tables, Ret(OK, batch[1]))
    /\ batch' = NoTxn
    /\ last' = [op |-> "AddBlocks", typ |-> "commit", src |-> NoHash,
                stored |-> FALSE, rooted |-> FALSE, err |-> OK,
                wrote |-> batch[1] # tables,
                added |-> last.added, failed |-> last.failed]
    /\ UNCHANGED hashes

Next ==
    \/ \E blk \in GenesisInputs(hashes) : NewLedger(blk)
    \/ \E blk \in BlockInputs(hashes) : AddBlock(blk)
    \/ \E blk \in BlockInputs(hashes) : AddBlocksStep(blk)
    \/ AddBlocksCommit

Spec == Init /\ [][Next]_vars


(***************************************************************************)
(* Derived notions used by the properties.                                 *)
(***************************************************************************)
RECURSIVE SumOver(_, _)
SumOver(f, keys) ==
    IF keys = {} THEN 0
    ELSE LET k == CHOOSE x \in keys : TRUE IN f[k] + SumOver(f, keys \ {k})

\* The voting weight of address as the store reads it.
Weight(txn, address) == GetRepresentation(txn, address).val

\* The sum of all Representation values and of all account balances of txn.
TotalRepresentation(txn) ==
    SumOver([a \in DOMAIN txn.rep |-> Weight(txn, a)], DOMAIN txn.rep)
TotalBalance(txn) ==
    SumOver([a \in DOMAIN txn.addr |-> txn.addr[a].Balance], DOMAIN txn.addr)

\* The stored Open and Receive blocks that name send hash h as their source.
Claims(txn, h) ==
    {k \in DOMAIN txn.block :
        txn.block[k].type \in {"open", "receive"} /\ txn.block[k].source = h}
Claimed(txn, h) == Claims(txn, h) # {}

\* The stored Send blocks.
Sends(txn) == {h \in DOMAIN txn.block : txn.block[h].type = "send"}

\* The account whose chain holds stored block h, and the balance of that
\* account right after h, both read off the stored chain alone.
RECURSIVE ChainOwner(_, _), ChainBalance(_, _), AmountSent(_, _)
ChainOwner(txn, h) ==
    IF txn.block[h].type = "open" THEN txn.block[h].address
    ELSE ChainOwner(txn, txn.block[h].previous)
ChainBalance(txn, h) ==
    LET b == txn.block[h] IN
    CASE b.type = "open" ->
            IF b.source \in DOMAIN txn.block THEN AmountSent(txn, b.source)
            ELSE GenesisBalance
      [] b.type = "send" -> b.balance
      [] b.type = "receive" ->
            ChainBalance(txn, b.previous) + AmountSent(txn, b.source)
      [] b.type = "change" -> ChainBalance(txn, b.previous)
AmountSent(txn, h) ==
    ChainBalance(txn, txn.block[h].previous) - txn.block[h].balance

(***************************************************************************)
(* C1.  If Ledger.AddBlock returns an error, the five tables are what they *)
(* were before the call, also when the handler had already written to the  *)
(* transaction before the error.                                           *)
(***************************************************************************)
Thm_C1_FailedAddBlockChangesNothing ==
    [][(last'.op = "AddBlock" /\ last'.err # OK) => tables' = tables]_vars

\* An AddBlock call has failed after its handler wrote to the transaction.
Wit_C1_FailedAfterWrite ==
    last.op = "AddBlock" /\ last.err # OK /\ last.wrote

(***************************************************************************)
(* C2.  In every committed state, every account with an AddressInfo has    *)
(* exactly one Frontier whose hash is the AddressInfo's HeadBlock, and     *)
(* that Frontier's address is the account.                                 *)
(***************************************************************************)
CE_C2_HeadHasFrontier ==
    \A a \in DOMAIN tables.addr :
        LET head == tables.addr[a].HeadBlock IN
        /\ Cardinality({h \in DOMAIN tables.frontier : h = head}) = 1
        /\ tables.frontier[head] = a

(***************************************************************************)
(* C3.  In every committed state there are as many Frontier records as     *)
(* AddressInfo records, and no Frontier is keyed by the previous hash of   *)
(* an applied Send, Receive or Change block.                               *)
(***************************************************************************)
CE_C3_NoStaleFrontier ==
    /\ Cardinality(DOMAIN tables.frontier) = Cardinality(DOMAIN tables.addr)
    /\ \A h \in DOMAIN tables.block :
          tables.block[h].type # "open" =>
              tables.block[h].previous \notin DOMAIN tables.frontier

(***************************************************************************)
(* C4.  In every committed state the Block table holds the HeadBlock, the  *)
(* RepBlock and the OpenBlock of every AddressInfo.                        *)
(***************************************************************************)
CE_C4_InfoBlocksStored ==
    \A a \in DOMAIN tables.addr :
        /\ HasBlock(tables, tables.addr[a].HeadBlock)
        /\ HasBlock(tables, tables.addr[a].RepBlock)
        /\ HasBlock(tables, tables.addr[a].OpenBlock)

(***************************************************************************)
(* C5.  In every committed state, from the installation of the genesis     *)
(* block on, the sum of all Representation values equals the sum of all    *)
(* account balances.                                                       *)
(***************************************************************************)
CE_C5_StakeConserved ==
    TotalRepresentation(tables) = TotalBalance(tables)

(***************************************************************************)
(* C6.  In every committed state, Pending(dest, h) exists iff the Block    *)
(* table holds a Send h to dest that no stored Open or Receive block has   *)
(* claimed; its Amount is what the send deducted and its Address is the    *)
(* sending account.                                                        *)
(***************************************************************************)
Thm_C6_PendingIffUnclaimedSend ==
    /\ DOMAIN tables.pending =
          {<<tables.block[h].destination, h>> :
              h \in {s \in Sends(tables) : ~Claimed(tables, s)}}
    /\ \A key \in DOMAIN tables.pending :
          /\ key[2] \in Sends(tables)
          /\ tables.pending[key].Amount = AmountSent(tables, key[2])
          /\ tables.pending[key].Address = ChainOwner(tables, key[2])

\* A send has been applied and claimed (its Pending record is gone), and
\* the committed store holds it.
Wit_C6_SendClaimed ==
    \E h \in Sends(tables) :
        /\ Claimed(tables, h)
        /\ <<tables.block[h].destination, h>> \notin DOMAIN tables.pending



(***************************************************************************)
(* Validity of a block against a transaction: the checks of the AddBlock   *)
(* protocol that come before the handler's first write.                    *)
(***************************************************************************)
\* Valid work, a hash that is not stored yet, a stored root.
PassesCommon(txn, blk, hash) ==
    Valid(blk) /\ ~HasBlock(txn, hash) /\ HasBlock(txn, Root(blk))

\* blk extends the head of account a and is signed by a.
ExtendsHead(txn, blk, a) ==
    /\ Root(blk) \in DOMAIN txn.frontier
    /\ txn.frontier[Root(blk)] = a
    /\ Verify(a, blk)
    /\ a \in DOMAIN txn.addr
    /\ txn.addr[a].HeadBlock = Root(blk)

(***************************************************************************)
(* C7.  AddBlock of a valid Change block (previous = the account's head,   *)
(* signed by the account, valid work) on an account with balance B and     *)
(* representative R1 succeeds; afterwards Representation(R1) is B less,    *)
(* Representation(block.representative) is B more, and the account's       *)
(* RepBlock and HeadBlock are the change block's hash.                     *)
(***************************************************************************)
CE_C7_ChangeMovesWeight ==
    \A blk \in ChangeInputs(hashes) : \A a \in DOMAIN tables.addr :
        LET hash == Hash(hashes, blk)
            r    == addBlock(tables, blk, hash)
            t    == Update(tables, r)
            B    == tables.addr[a].Balance
            R1   == getRepresentative(tables, a).rep
            R2   == blk.representative
        IN  (PassesCommon(tables, blk, hash) /\ ExtendsHead(tables, blk, a)) =>
                /\ r.err = OK
                /\ R1 # R2 =>
                     /\ Weight(t, R1) = Weight(tables, R1) - B
                     /\ Weight(t, R2) = Weight(tables, R2) + B
                /\ t.addr[a].RepBlock = hash
                /\ t.addr[a].HeadBlock = hash

(***************************************************************************)
(* C8.  AddBlock of a valid Send block with hash h from an account with    *)
(* balance old (block.balance < old), the first send of the genesis        *)
(* account included, succeeds; afterwards Pending(block.destination, h) =  *)
(* {Address: sender, Amount: old - block.balance}, the sender's balance is *)
(* block.balance, its HeadBlock is h, and the block is stored.             *)
(***************************************************************************)
Thm_C8_SendApplies ==
    \A blk \in SendInputs(hashes) : \A a \in DOMAIN tables.addr :
        LET hash == Hash(hashes, blk)
            r    == addBlock(tables, blk, hash)
            t    == Update(tables, r)
            old  == tables.addr[a].Balance
        IN  (/\ PassesCommon(tables, blk, hash)
             /\ ExtendsHead(tables, blk, a)
             /\ blk.balance < old) =>
                /\ r.err = OK
                /\ <<blk.destination, hash>> \in DOMAIN t.pending
                /\ t.pending[<<blk.destination, hash>>] =
                       [Address |-> a, Amount |-> old - blk.balance]
                /\ t.addr[a].Balance = blk.balance
                /\ t.addr[a].HeadBlock = hash
                /\ HasBlock(t, hash) /\ t.block[hash] = blk

\* AddBlock has just applied the first send of the genesis account.
Wit_C8_FirstSendApplied ==
    /\ last.op = "AddBlock" /\ last.typ = "send" /\ last.err = OK
    /\ Cardinality(DOMAIN tables.block) = 2
    /\ \E h \in Sends(tables) :
          /\ tables.block[h].previous = 1
          /\ <<tables.block[h].destination, h>> \in DOMAIN tables.pending

(***************************************************************************)
(* C9.  AddBlock of a valid Open block with hash h for an account N that   *)
(* does not exist yet, claiming an existing Pending(N, source) of amount   *)
(* a, succeeds; afterwards AddressInfo(N) = {head = h, rep = h, open = h,  *)
(* balance = a}, Pending(N, source) is gone, Representation(block.         *)
(* representative) is exactly a more, Frontier(h) = N, and the block is    *)
(* stored.                                                                 *)
(***************************************************************************)
CE_C9_OpenApplies ==
    \A blk \in OpenInputs(hashes) :
        LET hash == Hash(hashes, blk)
            r    == addBlock(tables, blk, hash)
            t    == Update(tables, r)
            N    == blk.address
            key  == <<N, blk.source>>
        IN  (/\ PassesCommon(tables, blk, hash)
             /\ Verify(N, blk)
             /\ N \notin DOMAIN tables.addr
             /\ key \in DOMAIN tables.pending) =>
                LET a == tables.pending[key].Amount IN
                /\ r.err = OK
                /\ N \in DOMAIN t.addr
                /\ t.addr[N] = [HeadBlock |-> hash, RepBlock |-> hash,
                                OpenBlock |-> hash, Balance |-> a]
                /\ key \notin DOMAIN t.pending
                /\ Weight(t, blk.representative) =
                       Weight(tables, blk.representative) + a
                /\ hash \in DOMAIN t.frontier /\ t.frontier[hash] = N
                /\ HasBlock(t, hash) /\ t.block[hash] = blk


(***************************************************************************)
(* C10.  Once a send has been claimed by an Open or Receive block, any     *)
(* further Open or Receive block naming that send as its source is         *)
(* rejected with MissingSource and changes no state, so one send is never  *)
(* credited twice.                                                         *)
(***************************************************************************)
\* The committed store, and the transaction of a running AddBlocks.
CurrentTxns == {tables} \cup (IF batch = NoTxn THEN {} ELSE {batch[1]})

ClaimInputs == OpenInputs(hashes) \cup ReceiveInputs(hashes)

\* A further claim that is in order but for its source: valid work, a hash
\* not stored yet, signed by the account it is for (an Open block's own
\* address, the owner of the head a Receive block extends).
WellFormedClaim(txn, blk, hash) ==
    /\ PassesCommon(txn, blk, hash)
    /\ blk.type = "open" => Verify(blk.address, blk)
    /\ blk.type = "receive" => \E a \in DOMAIN txn.addr : ExtendsHead(txn, blk, a)

\* The claim as stated: every further well-formed claim fails with MissingSource.
CE_C10_SecondClaimMissingSource ==
    \A txn \in CurrentTxns : \A blk \in ClaimInputs :
        LET hash == Hash(hashes, blk)
            r    == addBlock(txn, blk, hash)
        IN  (Claimed(txn, blk.source) /\ WellFormedClaim(txn, blk, hash)) =>
                r.err = ErrMissingSource /\ r.txn = txn

\* Amended: every further claim fails and writes nothing; a well-formed one
\* fails with "account already exists" when it is an Open block for an
\* account that is open, and with MissingSource otherwise.  No send is the
\* source of two stored blocks.
Thm_C10_SecondClaimRejected ==
    \A txn \in CurrentTxns :
        /\ \A blk \in ClaimInputs :
              LET hash == Hash(hashes, blk)
                  r    == addBlock(txn, blk, hash)
              IN  Claimed(txn, blk.source) =>
                     /\ r.err # OK
                     /\ r.txn = txn
                     /\ WellFormedClaim(txn, blk, hash) =>
                           r.err = IF blk.type = "open" /\ blk.address \in DOMAIN txn.addr
                                   THEN ErrAccountExists
                                   ELSE ErrMissingSource
        /\ \A h \in Sends(txn) : Cardinality(Claims(txn, h)) <= 1

\* AddBlock has just rejected, with MissingSource, an Open or Receive block
\* naming a send that a stored block had claimed before.
Wit_C10_SecondClaimRejected ==
    /\ last.op = "AddBlock" /\ last.err = ErrMissingSource
    /\ last.src \in Sends(tables) /\ Claimed(tables, last.src)

(***************************************************************************)
(* C11.  AddBlock of a Send block whose balance field is greater than or   *)
(* equal to the balance of the sending account (the owner of the frontier  *)
(* at its previous) fails and no table changes: no Pending record, no      *)
(* balance or head change, no frontier change, no block.  The error is the *)
(* negative/zero spend error when the block is in order but for its        *)
(* balance.                                                                *)
(***************************************************************************)
Thm_C11_NegativeOrZeroSpendRejected ==
    \A blk \in SendInputs(hashes) : \A a \in DOMAIN tables.addr :
        LET hash == Hash(hashes, blk)
            r    == addBlock(tables, blk, hash)
        IN  (/\ Root(blk) \in DOMAIN tables.frontier
             /\ tables.frontier[Root(blk)] = a
             /\ blk.balance >= tables.addr[a].Balance) =>
                /\ Failed(r)
                /\ r.txn = tables
                /\ Update(tables, r) = tables
                /\ (PassesCommon(tables, blk, hash) /\ ExtendsHead(tables, blk, a)) =>
                       r.err = ErrNegativeSpend

\* AddBlock has just rejected a Send block as a negative or zero spend.
Wit_C11_SpendRejected ==
    last.op = "AddBlock" /\ last.err = ErrNegativeSpend /\ ~last.wrote

(***************************************************************************)
(* C12.  addBlock applies its common checks in a fixed order, before any   *)
(* handler runs and before any write: invalid work fails with BadWork,     *)
(* also when the hash is stored or the root is missing; otherwise a stored *)
(* hash fails with BlockExists, also when the root is missing; otherwise a *)
(* root that is not in the Block table fails with MissingPrevious.  A      *)
(* block that passes the three checks gets none of the three errors.       *)
(***************************************************************************)
Thm_C12_CommonChecksInOrder ==
    \A txn \in CurrentTxns : \A blk \in BlockInputs(hashes) :
        LET hash == Hash(hashes, blk)
            r    == addBlock(txn, blk, hash)
        IN  /\ ~Valid(blk) => r = Ret(ErrBadWork, txn)
            /\ (Valid(blk) /\ HasBlock(txn, hash)) => r = Ret(ErrBlockExists, txn)
            /\ (Valid(blk) /\ ~HasBlock(txn, hash) /\ ~HasBlock(txn, Root(blk))) =>
                   r = Ret(ErrMissingPrevious, txn)
            /\ PassesCommon(txn, blk, hash) =>
                   r.err \notin {ErrBadWork, ErrBlockExists, ErrMissingPrevious}

\* AddBlock has just rejected, with BadWork, a block whose hash was stored
\* and whose root was not.
Wit_C12_BadWorkBeforeOtherChecks ==
    /\ last.op = "AddBlock" /\ last.err = ErrBadWork
    /\ last.stored /\ ~last.rooted

(***************************************************************************)
(* C13.  NewLedger is idempotent with respect to genesis: on an empty      *)
(* store it installs the genesis block, its AddressInfo and its Frontier;  *)
(* on a non-empty store it succeeds and changes nothing when given the     *)
(* genesis block that was installed, and fails with BadGenesis and changes *)
(* nothing when given any other validly signed Open block.                 *)
(***************************************************************************)
CE_C13_GenesisIdempotent ==
    /\ LET t == Update(EmptyTables,
                       setGenesis(EmptyTables, GenesisBlock, 1, GenesisBalance))
       IN  /\ t.block = Put(EmptyMap, 1, GenesisBlock)
           /\ t.addr = Put(EmptyMap, GenesisBlock.address,
                           [HeadBlock |-> 1, RepBlock |-> 1, OpenBlock |-> 1,
                            Balance |-> GenesisBalance])
           /\ t.frontier = Put(EmptyMap, 1, GenesisBlock.address)
    /\ \A blk \in GenesisInputs(hashes) :
          LET hash == Hash(hashes, blk)
              r    == setGenesis(tables, blk, hash, GenesisBalance)
          IN  (~Empty(tables) /\ Verify(blk.address, blk)) =>
                 /\ Update(tables, r) = tables
                 /\ r.err = IF Content(blk) = Content(GenesisBlock)
                            THEN OK ELSE ErrBadGenesis

(***************************************************************************)
(* C14.  AddBlocks never aborts on a bad block.  Every iteration of its    *)
(* loop works on the transaction the preceding blocks of the batch left,   *)
(* whatever their errors: a block that addBlock accepts there is added to  *)
(* it, and no block added before is lost.  At the end AddBlocks returns no *)
(* error and the store holds exactly that transaction, the blocks applied  *)
(* before and after a rejected block included.                             *)
(***************************************************************************)
Thm_C14_AddBlocksNeverAborts ==
    [][/\ (last'.op = "AddBlocks" /\ last'.typ # "commit") =>
             LET txn == IF batch = NoTxn THEN tables ELSE batch[1] IN
             /\ batch' # NoTxn
             /\ tables' = tables
             /\ \A h \in DOMAIN txn.block :
                   h \in DOMAIN batch'[1].block /\ batch'[1].block[h] = txn.block[h]
             /\ last'.err = OK =>
                   Cardinality(DOMAIN batch'[1].block) =
                       Cardinality(DOMAIN txn.block) + 1
       /\ (last'.op = "AddBlocks" /\ last'.typ = "commit") =>
             /\ batch # NoTxn
             /\ last'.err = OK
             /\ tables' = batch[1]
             /\ batch' = NoTxn
      ]_vars

\* AddBlocks has committed a batch in which a block was applied and a block
\* was rejected.
Wit_C14_CommitAfterFailure ==
    /\ last.op = "AddBlocks" /\ last.typ = "commit"
    /\ last.added /\ last.failed /\ last.wrote
    /\ batch = NoTxn

(***************************************************************************)
(* C15.  A block that fails inside AddBlocks leaves no trace: the state    *)
(* AddBlocks(b1..bn) commits is the state that AddBlock(b1), ...,          *)
(* AddBlock(bn), called one after another with their errors ignored, would *)
(* reach, so nothing a rejected block wrote is committed.                  *)
(***************************************************************************)
CE_C15_BatchEqualsSequential ==
    [][(last'.op = "AddBlocks" /\ last'.typ = "commit") => tables' = batch[2]]_vars

(***************************************************************************)
(* C16.  SubRepresentation(address, amount) with amount greater than the   *)
(* current representation of address (zero when absent) returns an error   *)
(* and leaves the stored value unchanged; so no Representation value ever  *)
(* wraps around below zero: none exceeds the supply.                       *)
(***************************************************************************)
CE_C16_SubRepresentationChecked ==
    /\ \A txn \in CurrentTxns : \A address \in Address :
          \A amount \in 0..(BalanceMod - 1) :
             amount > Weight(txn, address) =>
                LET r == SubRepresentation(txn, address, amount) IN
                Failed(r) /\ r.txn = txn
    /\ \A address \in DOMAIN tables.rep : Weight(tables, address) <= GenesisBalance

(***************************************************************************)
(* C17.  The storage codec of Balance is a round trip: for every balance b *)
(* UnmarshalBinary(MarshalBinary(b)) yields b, so a Representation value   *)
(* written by setRepresentation is read back unchanged by                  *)
(* GetRepresentation.                                                      *)
(***************************************************************************)
CE_C17_BalanceCodecRoundTrip ==
    /\ \A b \in 0..(BalanceMod - 1) :
          UnmarshalBinary(MarshalBinary(b)) = [err |-> OK, val |-> b]
    /\ \A txn \in CurrentTxns : \A address \in Address : \A b \in 0..(BalanceMod - 1) :
          GetRepresentation(setRepresentation(txn, address, b).txn, address) =
              [err |-> OK, val |-> b]

(***************************************************************************)
(* C18.  The Block table is append-only: a stored hash stays stored with   *)
(* the same block in every later state, the block count never decreases,   *)
(* and submitting a block whose hash is already stored fails with          *)
(* BlockExists without changing any table.                                 *)
(***************************************************************************)
\* Every stored block is still stored, unchanged, after the step.
BlocksKept ==
    /\ \A h \in DOMAIN tables.block :
          h \in DOMAIN tables'.block /\ tables'.block[h] = tables.block[h]
    /\ Cardinality(DOMAIN tables'.block) >= Cardinality(DOMAIN tables.block)

\* A submitted block with a stored hash fails without a write: with
\* BlockExists when its work is valid (with BadWork when it is not).
Thm_C18_BlockTableAppendOnly ==
    /\ [][BlocksKept]_vars
    /\ [](\A txn \in CurrentTxns : \A blk \in BlockInputs(hashes) :
             HasBlock(txn, Hash(hashes, blk)) =>
                addBlock(txn, blk, Hash(hashes, blk)) =
                    Ret(IF Valid(blk) THEN ErrBlockExists ELSE ErrBadWork, txn))

\* AddBlock has just rejected, with BlockExists, a block whose hash was
\* stored, and the table has grown since genesis.
Wit_C18_StoredBlockResubmitted ==
    /\ last.op = "AddBlock" /\ last.err = ErrBlockExists /\ last.stored
    /\ ~last.wrote
    /\ Cardinality(DOMAIN tables.block) >= 2

(***************************************************************************)
(* C19.  A Send, Receive or Change block is applied only if its signature  *)
(* verifies under the address that owns the frontier at its previous, an   *)
(* Open block only if it verifies under its own address.  A block signed   *)
(* by any other key is rejected and changes no state; the error is the bad *)
(* signature error when the block has passed the checks made before the    *)
(* signature is looked at.                                                 *)
(***************************************************************************)
\* Whether txn names the account blk must be signed by, and that account.
HasSigner(txn, blk) == blk.type = "open" \/ Root(blk) \in DOMAIN txn.frontier
Signer(txn, blk) ==
    IF blk.type = "open" THEN blk.address ELSE txn.frontier[Root(blk)]

Thm_C19_OnlySignedBlocksApplied ==
    \A txn \in CurrentTxns : \A blk \in BlockInputs(hashes) :
        LET hash == Hash(hashes, blk)
            r    == addBlock(txn, blk, hash)
        IN  /\ r.err = OK =>
                  HasSigner(txn, blk) /\ Verify(Signer(txn, blk), blk)
            /\ (HasSigner(txn, blk) /\ ~Verify(Signer(txn, blk), blk)) =>
                  /\ Failed(r)
                  /\ r.txn = txn
                  /\ PassesCommon(txn, blk, hash) => r.err = ErrBadSignature

\* AddBlock has just rejected a block for its signature, and wrote nothing.
Wit_C19_BadSignatureRejected ==
    last.op = "AddBlock" /\ last.err = ErrBadSignature /\ ~last.wrote

(***************************************************************************)
(* C21.  GetFrontiers returns exactly the (hash, address) pairs that       *)
(* AddFrontier stored and that were not deleted since: every returned Hash *)
(* is the hash the record was added under, so GetFrontier(f.Hash) succeeds *)
(* for every f that GetFrontiers returns.                                  *)
(***************************************************************************)
CE_C21_GetFrontiersReturnsStoredHashes ==
    \A txn \in CurrentTxns :
        LET fs == GetFrontiers(txn) IN
        /\ Len(fs) = Cardinality(DOMAIN txn.frontier)
        /\ {fs[i] : i \in 1..Len(fs)} =
              {[Address |-> txn.frontier[h], Hash |-> h] : h \in DOMAIN txn.frontier}
        /\ \A i \in 1..Len(fs) :
              GetFrontier(txn, fs[i].Hash) = [err |-> OK, frontier |-> fs[i]]

(***************************************************************************)
(* C22.  Total supply is conserved: in every committed state reachable     *)
(* from genesis through AddBlock and AddBlocks, the sum of all account     *)
(* balances plus the sum of all Pending amounts is the genesis balance.    *)
(***************************************************************************)
TotalPending(txn) ==
    SumOver([k \in DOMAIN txn.pending |-> txn.pending[k].Amount], DOMAIN txn.pending)

Thm_C22_SupplyConserved ==
    TotalBalance(tables) + TotalPending(tables) = GenesisBalance

\* Part of the supply has reached a second account, through a Pending
\* record that an Open block claimed.
Wit_C22_SupplyMoved ==
    /\ \E a \in DOMAIN tables.addr :
          a # GenesisBlock.address /\ tables.addr[a].Balance > 0
    /\ tables.addr[GenesisBlock.address].Balance < GenesisBalance

(***************************************************************************)
(* C23.  Each account's chain stays linear: a Send, Receive or Change      *)
(* block is applied only if its previous is the HeadBlock of an account; a *)
(* block whose previous a stored block already extends (a fork) is         *)
(* rejected and writes nothing; no two stored Send, Receive or Change      *)
(* blocks have the same previous.                                          *)
(***************************************************************************)
ChainInputs ==
    SendInputs(hashes) \cup ReceiveInputs(hashes) \cup ChangeInputs(hashes)

\* The stored blocks that extend hash p.
Extensions(txn, p) ==
    {h \in DOMAIN txn.block :
        txn.block[h].type # "open" /\ txn.block[h].previous = p}

Thm_C23_ChainsStayLinear ==
    \A txn \in CurrentTxns :
        /\ \A blk \in ChainInputs :
              LET hash == Hash(hashes, blk)
                  r    == addBlock(txn, blk, hash)
              IN  /\ r.err = OK =>
                        \E a \in DOMAIN txn.addr : txn.addr[a].HeadBlock = blk.previous
                  /\ (Extensions(txn, blk.previous) \ {hash}) # {} =>
                        Failed(r) /\ r.txn = txn
        /\ \A p \in DOMAIN txn.block : Cardinality(Extensions(txn, p)) <= 1

\* AddBlock has just rejected, at the head check, a block whose previous is
\* a stored block that the account's stored head has left behind.
Wit_C23_ForkRejected ==
    /\ last.op = "AddBlock" /\ last.err = ErrUnexpectedHead
    /\ last.rooted /\ ~last.stored /\ ~last.wrote
    /\ \A a \in DOMAIN tables.addr : HasBlock(tables, tables.addr[a].HeadBlock)

=============================================================================
